---- MODULE Spec2Model ----
(***************************************************************************)
(* Model of aeneas/dtw.py: the engines DTWExact and DTWStripe and the      *)
(* coordinator DTWAligner.                                                 *)
(*                                                                         *)
(* One behaviour is one call: of compute_path() on one engine (Spec,       *)
(* SpecExact, SpecStripe, SpecS3), or of compute_path() or                 *)
(* compute_accumulated_cost_matrix() on the aligner (SpecAligner).  Times  *)
(* of the configuration are integers of one unit.  The MFCC                *)
(* columns (after the first coefficient is dropped) are drawn from Frames, *)
(* a set of vectors whose cosine distances are the integers 0, 1 and 2, so *)
(* that the float arithmetic of the source is exact.  numpy.inf is the     *)
(* value Inf, absorbing for addition and above every finite sum.  Arrays   *)
(* are functions over 0-based indices, as in the source.                   *)
(***************************************************************************)
EXTENDS Integers, Sequences, FiniteSets, TLC

\* Bounds of the explored inputs.
MaxN == 3
MaxM == 3
MaxDelta == 3
MaxLen == 2      \* columns of a wave handed to the aligner
MaxMargin == 2   \* rconf["dtw_margin"]

\* The MFCC columns explored: norms 2, 1, 1; pairwise parallel, orthogonal or opposite.
Frames == { <<2, 0>>, <<0, 1>>, <<-1, 0>> }

VARIABLES
    algorithm,    \* "exact" | "stripe": the engine that runs
    mfcc1,        \* self.m1[1:, :] by columns: mfcc1[i] is frame i of the real wave
    mfcc2,        \* self.m2[1:, :] by columns: mfcc2[j] is frame j of the synthesized wave
    n,            \* number of frames of the real wave (mfcc1.shape[1])
    m,            \* number of frames of the synthesized wave (mfcc2.shape[1])
    delta,        \* self.delta of DTWStripe (0 for DTWExact, which has none)
    pc,           \* position inside compute_path
    cost_matrix,  \* the engine's matrix, accumulated in place
    centers,      \* DTWStripe: centers[i] is the absolute column of local column 0
    i,            \* backtracking row
    j,            \* backtracking (absolute) column
    costs,        \* the list `costs` built by the last backtracking iteration, <<>> if it built none
    path,         \* the list `path`
    op,           \* "path" | "acm": compute_path or compute_accumulated_cost_matrix is running
    real_wave_mfcc,  \* DTWAligner.real_wave_mfcc: None or an AudioFileMFCC
    synt_wave_mfcc,  \* DTWAligner.synt_wave_mfcc: None or an AudioFileMFCC
    rconf,        \* DTWAligner.rconf
    can_run,      \* what gf.can_run_c_extension() answers
    native,       \* DTWStripe: "untried" | "skipped" | "failed" | "ok" ("none" without DTWStripe)
    computed_path,   \* DTWAligner.computed_path
    raised,       \* the exception the call raised to its caller, "none" if none
    returned      \* the matrix compute_accumulated_cost_matrix returned, None before

engineVars == <<algorithm, mfcc1, mfcc2, n, m, delta, pc, cost_matrix, centers, i, j, costs, path>>

alignerVars == <<op, real_wave_mfcc, synt_wave_mfcc, rconf, can_run, native, computed_path,
                 raised, returned>>

vars == <<engineVars, alignerVars>>

\* Python's None
None == <<>>

----------------------------------------------------------------------------
\* Arithmetic of the source.

\* numpy.inf
Inf == 2 * (MaxN + MaxM + 2) + 1

\* float addition; inf + x = inf
Add(a, b) == IF a = Inf \/ b = Inf THEN Inf ELSE a + b

\* slip: the diagonal neighbour left out of the minimum
Min3_NoDiag(a, b, c) == IF a <= b THEN a ELSE b

\* builtin min of three values
Min3(a, b, c) == IF a <= b /\ a <= c THEN a ELSE IF b <= c THEN b ELSE c

\* slip: on ties the last minimum wins
ArgMin_LastOnTies(cs) == IF cs[3] <= cs[1] /\ cs[3] <= cs[2] THEN 2
                         ELSE IF cs[2] <= cs[1] THEN 1 ELSE 0

\* numpy.argmin of a list of three: index (0-based) of the first minimum
ArgMin(cs) == IF cs[1] <= cs[2] /\ cs[1] <= cs[3] THEN 0
              ELSE IF cs[2] <= cs[3] THEN 1 ELSE 2

\* slip: path.reverse() left out
Reverse_Missing(s) == s

\* list.reverse()
Reverse(s) == [t \in 1..Len(s) |-> s[Len(s) + 1 - t]]

\* slip: `and` in place of `or` in the loop condition
Continue_And(ii, jj) == (ii > 0) /\ (jj > 0)

\* while (i > 0) or (j > 0)
Continue(ii, jj) == (ii > 0) \/ (jj > 0)

\* slip: the moves listed diagonal first, out of step with the costs
Moves_DiagFirst(ii, jj) == << <<ii - 1, jj - 1>>, <<ii - 1, jj>>, <<ii, jj - 1>> >>

\* moves = [(i-1, j), (i, j-1), (i-1, j-1)]
Moves(ii, jj) == << <<ii - 1, jj>>, <<ii, jj - 1>>, <<ii - 1, jj - 1>> >>

----------------------------------------------------------------------------
\* Cosine distance

\* u.transpose().dot(v)
Dot(u, v) == u[1] * v[1] + u[2] * v[2]

\* numpy.sqrt, on the squares it is applied to
Sqrt(x) == CHOOSE k \in 0..x : k * k = x

\* norm2 = numpy.sqrt(numpy.sum(mfcc ** 2, 0)), for one column
Norm2(u) == Sqrt(Dot(u, u))

\* 1 - (dot product / product of the norms)
CosineDistance(u, v) == 1 - (Dot(u, v) \div (Norm2(u) * Norm2(v)))

----------------------------------------------------------------------------
\* DTWExact

\* DTWExact._compute_cost_matrix: the full n x m matrix of distances
ExactCostMatrix(f1, f2, nn, mm) ==
    [r \in 0..(nn - 1) |-> [c \in 0..(mm - 1) |-> CosineDistance(f1[r], f2[c])]]

\* slip: the loop over the first row left out, row 0 keeps the plain distances
FirstRowLoop_Skipped(cm, current_row, jj, w) == cm

\* for j in range(1, m): cost_matrix[0][j] = current_row[j] + cost_matrix[0][j-1]
RECURSIVE FirstRowLoop(_, _, _, _)
FirstRowLoop(cm, current_row, jj, w) ==
    IF jj >= w THEN cm
    ELSE FirstRowLoop([cm EXCEPT ![0][jj] = Add(current_row[jj], cm[0][jj - 1])],
                      current_row, jj + 1, w)

\* slip: the left neighbour is read from the saved copy of the row, not from the
\* row being accumulated
RECURSIVE ExactInnerLoop_StaleLeft(_, _, _, _, _)
ExactInnerLoop_StaleLeft(cm, current_row, ii, jj, mm) ==
    IF jj >= mm THEN cm
    ELSE ExactInnerLoop_StaleLeft(
            [cm EXCEPT ![ii][jj] = Add(current_row[jj],
                                       Min3(cm[ii - 1][jj], current_row[jj - 1], cm[ii - 1][jj - 1]))],
            current_row, ii, jj + 1, mm)

\* for j in range(1, m): cost_matrix[i][j] = current_row[j] + min(up, left, diag)
RECURSIVE ExactInnerLoop(_, _, _, _, _)
ExactInnerLoop(cm, current_row, ii, jj, mm) ==
    IF jj >= mm THEN cm
    ELSE ExactInnerLoop(
            [cm EXCEPT ![ii][jj] = Add(current_row[jj],
                                       Min3(cm[ii - 1][jj], cm[ii][jj - 1], cm[ii - 1][jj - 1]))],
            current_row, ii, jj + 1, mm)

\* body of `for i in range(1, n)`
ExactRow(cm, ii, mm) ==
    LET current_row == cm[ii]
        cm0 == [cm EXCEPT ![ii][0] = Add(cm[ii - 1][0], current_row[0])]
    IN  ExactInnerLoop(cm0, current_row, ii, 1, mm)

RECURSIVE ExactOuterLoop(_, _, _, _)
ExactOuterLoop(cm, ii, nn, mm) ==
    IF ii >= nn THEN cm ELSE ExactOuterLoop(ExactRow(cm, ii, mm), ii + 1, nn, mm)

\* DTWExact._compute_acm_in_place
ExactAcmInPlace(cm, nn, mm) ==
    ExactOuterLoop(FirstRowLoop(cm, cm[0], 1, mm), 1, nn, mm)

\* slip: the costs of up and left listed in the other order than the moves
ExactCosts_Swapped(acc, ii, jj) == << acc[ii][jj - 1], acc[ii - 1][jj], acc[ii - 1][jj - 1] >>

\* costs = [acc[i-1][j], acc[i][j-1], acc[i-1][j-1]]
ExactCosts(acc, ii, jj) == << acc[ii - 1][jj], acc[ii][jj - 1], acc[ii - 1][jj - 1] >>

\* slip: in row 0 the column is not decremented
ExactMove_NoDecrement(acc, ii, jj) ==
    IF ii = 0 THEN <<0, jj>>
    ELSE IF jj = 0 THEN <<ii - 1, 0>>
    ELSE Moves(ii, jj)[ArgMin(ExactCosts(acc, ii, jj)) + 1]

\* one iteration of the while loop of DTWExact._compute_best_path: the cell appended
ExactMove(acc, ii, jj) ==
    IF ii = 0 THEN <<0, jj - 1>>
    ELSE IF jj = 0 THEN <<ii - 1, 0>>
    ELSE Moves(ii, jj)[ArgMin(ExactCosts(acc, ii, jj)) + 1]

RECURSIVE ExactWhile(_, _, _, _)
ExactWhile(acc, ii, jj, p) ==
    IF ~Continue(ii, jj) THEN p
    ELSE LET mv == ExactMove(acc, ii, jj)
         IN  ExactWhile(acc, mv[1], mv[2], Append(p, mv))

\* DTWExact._compute_best_path
ExactBestPath(acc, nn, mm) == Reverse(ExactWhile(acc, nn - 1, mm - 1, << <<nn - 1, mm - 1>> >>))

----------------------------------------------------------------------------
\* Actions of DTWExact.compute_path

ExactComputeCostMatrix ==
    /\ algorithm = "exact" /\ pc = "start"
    /\ cost_matrix' = ExactCostMatrix(mfcc1, mfcc2, n, m)
    /\ pc' = "cost"
    /\ UNCHANGED alignerVars
    /\ UNCHANGED <<algorithm, mfcc1, mfcc2, n, m, delta, centers, i, j, costs, path>>

ExactComputeAcm ==
    /\ algorithm = "exact" /\ pc = "cost"
    /\ cost_matrix' = ExactAcmInPlace(cost_matrix, n, m)
    /\ pc' = "acm"
    /\ UNCHANGED alignerVars
    /\ UNCHANGED <<algorithm, mfcc1, mfcc2, n, m, delta, centers, i, j, costs, path>>

ExactBestPathStart ==
    /\ algorithm = "exact" /\ pc = "acm" /\ op = "path"
    /\ i' = n - 1
    /\ j' = m - 1
    /\ path' = << <<n - 1, m - 1>> >>
    /\ pc' = "back"
    /\ UNCHANGED alignerVars
    /\ UNCHANGED <<algorithm, mfcc1, mfcc2, n, m, delta, cost_matrix, centers, costs>>

ExactBestPathStep ==
    /\ algorithm = "exact" /\ pc = "back"
    /\ Continue(i, j)
    /\ LET mv == ExactMove(cost_matrix, i, j)
       IN  /\ path' = Append(path, mv)
           /\ i' = mv[1]
           /\ j' = mv[2]
    /\ costs' = IF i # 0 /\ j # 0 THEN ExactCosts(cost_matrix, i, j) ELSE <<>>
    /\ UNCHANGED alignerVars
    /\ UNCHANGED <<algorithm, mfcc1, mfcc2, n, m, delta, pc, cost_matrix, centers>>

ExactBestPathReturn ==
    /\ algorithm = "exact" /\ pc = "back"
    /\ ~Continue(i, j)
    /\ path' = Reverse(path)
    /\ pc' = "done"
    /\ UNCHANGED alignerVars
    /\ UNCHANGED <<algorithm, mfcc1, mfcc2, n, m, delta, cost_matrix, centers, i, j, costs>>

----------------------------------------------------------------------------
\* DTWStripe (pure-Python path)

\* if delta > m: delta = m
StripeDelta(dcfg, mm) == IF dcfg > mm THEN mm ELSE dcfg

\* slip: the center of row i taken one row ahead, (m * (i + 1)) // n
RangeStart_NextRow(ii, nn, mm, d) ==
    LET center_j == (mm * (ii + 1)) \div nn
        shifted == center_j - (d \div 2)
        range_start == IF shifted > 0 THEN shifted ELSE 0
        range_end == range_start + d
    IN  IF range_end > mm THEN mm - d ELSE range_start

\* range_start of row i in DTWStripe._compute_cost_matrix
RangeStart(ii, nn, mm, d) ==
    LET center_j == (mm * ii) \div nn
        shifted == center_j - (d \div 2)
        range_start == IF shifted > 0 THEN shifted ELSE 0
        range_end == range_start + d
    IN  IF range_end > mm THEN mm - d ELSE range_start

\* centers[i] = range_start
StripeCenters(nn, mm, d) == [r \in 0..(nn - 1) |-> RangeStart(r, nn, mm, d)]

\* cost_matrix[i][j - range_start] = distance of (i, j), for j in range(range_start, range_end)
StripeCostMatrix(f1, f2, nn, mm, d) ==
    [r \in 0..(nn - 1) |->
        [k \in 0..(d - 1) |-> CosineDistance(f1[r], f2[RangeStart(r, nn, mm, d) + k])]]

\* row[k] of a numpy row of width w: a negative index counts from the end
Get(row, k, w) == row[IF k < 0 THEN k + w ELSE k]

\* row[k] raises IndexError
OutOfBounds(k, w) == k >= w \/ k < 0 - w

\* slip: the up neighbour read at local column j, the offset between the centers left out
RECURSIVE StripeInnerLoop_NoOffset(_, _, _, _, _, _)
StripeInnerLoop_NoOffset(cm, current_row, offset, ii, jj, d) ==
    IF jj >= d THEN cm
    ELSE LET cost0 == IF (jj + offset) < d THEN Get(cm[ii - 1], jj, d) ELSE Inf
             cost1 == IF jj > 0 THEN Get(cm[ii], jj - 1, d) ELSE Inf
             cost2 == IF ((jj + offset - 1) < d) /\ ((jj + offset - 1) >= 0)
                      THEN Get(cm[ii - 1], jj + offset - 1, d) ELSE Inf
         IN  StripeInnerLoop_NoOffset(
                [cm EXCEPT ![ii][jj] = Add(current_row[jj], Min3(cost0, cost1, cost2))],
                current_row, offset, ii, jj + 1, d)

\* slip: the diagonal neighbour guarded with > 0 in place of >= 0
RECURSIVE StripeInnerLoop_DiagGuard(_, _, _, _, _, _)
StripeInnerLoop_DiagGuard(cm, current_row, offset, ii, jj, d) ==
    IF jj >= d THEN cm
    ELSE LET cost0 == IF (jj + offset) < d THEN Get(cm[ii - 1], jj + offset, d) ELSE Inf
             cost1 == IF jj > 0 THEN Get(cm[ii], jj - 1, d) ELSE Inf
             cost2 == IF ((jj + offset - 1) < d) /\ ((jj + offset - 1) > 0)
                      THEN Get(cm[ii - 1], jj + offset - 1, d) ELSE Inf
         IN  StripeInnerLoop_DiagGuard(
                [cm EXCEPT ![ii][jj] = Add(current_row[jj], Min3(cost0, cost1, cost2))],
                current_row, offset, ii, jj + 1, d)

\* for j in range(delta): cost_matrix[i][j] = current_row[j] + min(cost0, cost1, cost2)
RECURSIVE StripeInnerLoop(_, _, _, _, _, _)
StripeInnerLoop(cm, current_row, offset, ii, jj, d) ==
    IF jj >= d THEN cm
    ELSE LET cost0 == IF (jj + offset) < d THEN Get(cm[ii - 1], jj + offset, d) ELSE Inf
             cost1 == IF jj > 0 THEN Get(cm[ii], jj - 1, d) ELSE Inf
             cost2 == IF ((jj + offset - 1) < d) /\ ((jj + offset - 1) >= 0)
                      THEN Get(cm[ii - 1], jj + offset - 1, d) ELSE Inf
         IN  StripeInnerLoop([cm EXCEPT ![ii][jj] = Add(current_row[jj], Min3(cost0, cost1, cost2))],
                             current_row, offset, ii, jj + 1, d)

\* body of `for i in range(1, n)`
StripeRow(cm, cen, ii, d) == StripeInnerLoop(cm, cm[ii], cen[ii] - cen[ii - 1], ii, 0, d)

RECURSIVE StripeOuterLoop(_, _, _, _, _)
StripeOuterLoop(cm, cen, ii, nn, d) ==
    IF ii >= nn THEN cm ELSE StripeOuterLoop(StripeRow(cm, cen, ii, d), cen, ii + 1, nn, d)

\* DTWStripe._compute_acm_in_place
StripeAcmInPlace(cm, cen, nn, d) ==
    StripeOuterLoop(FirstRowLoop(cm, cm[0], 1, d), cen, 1, nn, d)

\* costs = [cost0, cost1, cost2] of DTWStripe._compute_best_path
StripeCosts(acc, cen, ii, jj, d) ==
    LET offset == cen[ii] - cen[ii - 1]
        r_j == jj - cen[ii]
        cost0 == IF (r_j + offset) < d THEN Get(acc[ii - 1], r_j + offset, d) ELSE Inf
        cost1 == IF r_j > 0 THEN Get(acc[ii], r_j - 1, d) ELSE Inf
        cost2 == IF (r_j > 0) /\ ((r_j + offset - 1) < d) /\ ((r_j + offset - 1) >= 0)
                 THEN Get(acc[ii - 1], r_j + offset - 1, d) ELSE Inf
    IN  <<cost0, cost1, cost2>>

\* an iteration of the while loop reads acc_matrix outside its bounds (IndexError)
StripeRaises(cen, ii, jj, d) ==
    /\ ii # 0 /\ jj # 0
    /\ LET offset == cen[ii] - cen[ii - 1]
           r_j == jj - cen[ii]
       IN  \/ (r_j + offset) < d /\ OutOfBounds(r_j + offset, d)
           \/ r_j > 0 /\ OutOfBounds(r_j - 1, d)
           \/ (r_j > 0) /\ ((r_j + offset - 1) < d) /\ ((r_j + offset - 1) >= 0)
                /\ OutOfBounds(r_j + offset - 1, d)

\* one iteration of the while loop of DTWStripe._compute_best_path: the cell appended
StripeMove(acc, cen, ii, jj, d) ==
    IF ii = 0 THEN <<0, jj - 1>>
    ELSE IF jj = 0 THEN <<ii - 1, 0>>
    ELSE Moves(ii, jj)[ArgMin(StripeCosts(acc, cen, ii, jj, d)) + 1]

----------------------------------------------------------------------------
\* Actions of DTWStripe._compute_path_pure_python

StripeComputeCostMatrix ==
    /\ algorithm = "stripe" /\ pc = "start" /\ native \in {"skipped", "failed"}
    /\ LET d == StripeDelta(delta, m)
       IN  /\ cost_matrix' = StripeCostMatrix(mfcc1, mfcc2, n, m, d)
           /\ centers' = StripeCenters(n, m, d)
    /\ pc' = "cost"
    /\ UNCHANGED alignerVars
    /\ UNCHANGED <<algorithm, mfcc1, mfcc2, n, m, delta, i, j, costs, path>>

\* n, delta = cost_matrix.shape
Width(cm) == Cardinality(DOMAIN cm[0])

StripeComputeAcm ==
    /\ algorithm = "stripe" /\ pc = "cost"
    /\ cost_matrix' = StripeAcmInPlace(cost_matrix, centers, n, Width(cost_matrix))
    /\ pc' = "acm"
    /\ UNCHANGED alignerVars
    /\ UNCHANGED <<algorithm, mfcc1, mfcc2, n, m, delta, centers, i, j, costs, path>>

StripeBestPathStart ==
    /\ algorithm = "stripe" /\ pc = "acm" /\ op = "path"
    /\ i' = n - 1
    /\ j' = Width(cost_matrix) - 1 + centers[n - 1]
    /\ path' = << <<n - 1, Width(cost_matrix) - 1 + centers[n - 1]>> >>
    /\ pc' = "back"
    /\ UNCHANGED alignerVars
    /\ UNCHANGED <<algorithm, mfcc1, mfcc2, n, m, delta, cost_matrix, centers, costs>>

StripeBestPathStep ==
    /\ algorithm = "stripe" /\ pc = "back"
    /\ Continue(i, j)
    /\ IF StripeRaises(centers, i, j, Width(cost_matrix))
       THEN \* except Exception: return (False, None)
            /\ pc' = "failed"
            /\ UNCHANGED <<i, j, costs, path>>
       ELSE /\ LET mv == StripeMove(cost_matrix, centers, i, j, Width(cost_matrix))
               IN  /\ path' = Append(path, mv)
                   /\ i' = mv[1]
                   /\ j' = mv[2]
            /\ costs' = IF i # 0 /\ j # 0
                        THEN StripeCosts(cost_matrix, centers, i, j, Width(cost_matrix))
                        ELSE <<>>
            /\ pc' = pc
    /\ UNCHANGED alignerVars
    /\ UNCHANGED <<algorithm, mfcc1, mfcc2, n, m, delta, cost_matrix, centers>>

StripeBestPathReturn ==
    /\ algorithm = "stripe" /\ pc = "back"
    /\ ~Continue(i, j)
    /\ path' = Reverse(path)
    /\ pc' = "done"
    /\ UNCHANGED alignerVars
    /\ UNCHANGED <<algorithm, mfcc1, mfcc2, n, m, delta, cost_matrix, centers, i, j, costs>>

----------------------------------------------------------------------------

\* the state before compute_path is called: the constructor has stored m1, m2 (and delta)
InitEngine(alg, deltas) ==
    /\ algorithm = alg
    /\ n \in 1..MaxN
    /\ m \in 1..MaxM
    /\ mfcc1 \in [0..(n - 1) -> Frames]
    /\ mfcc2 \in [0..(m - 1) -> Frames]
    /\ delta \in deltas
    /\ pc = "start"
    /\ cost_matrix = <<>>
    /\ centers = <<>>
    /\ i = 0
    /\ j = 0
    /\ costs = <<>>
    /\ path = <<>>
    /\ op = "path"
    /\ real_wave_mfcc = None
    /\ synt_wave_mfcc = None
    /\ rconf = None
    /\ can_run = FALSE
    /\ native = (IF alg = "stripe" THEN "skipped" ELSE "none")
    /\ computed_path = None
    /\ raised = "none"
    /\ returned = None

InitExact == InitEngine("exact", {0})

InitStripe == InitEngine("stripe", 1..MaxDelta)

Init == InitExact \/ InitStripe

NextExact ==
    \/ ExactComputeCostMatrix
    \/ ExactComputeAcm
    \/ ExactBestPathStart
    \/ ExactBestPathStep
    \/ ExactBestPathReturn

NextStripe ==
    \/ StripeComputeCostMatrix
    \/ StripeComputeAcm
    \/ StripeBestPathStart
    \/ StripeBestPathStep
    \/ StripeBestPathReturn

Next == NextExact \/ NextStripe

\* a call on either engine
Spec == Init /\ [][Next]_vars

\* the while loop of either _compute_best_path: an iteration, or the exit and return
BacktrackingLoop ==
    \/ ExactBestPathStep
    \/ ExactBestPathReturn
    \/ StripeBestPathStep
    \/ StripeBestPathReturn

\* a call on either engine whose backtracking loop, once entered, keeps running: the
\* code is sequential and nothing in the loop waits
SpecFair == Init /\ [][Next]_vars /\ WF_vars(BacktrackingLoop)

\* a call of DTWExact.compute_path
SpecExact == InitExact /\ [][NextExact]_vars

\* a call of DTWStripe._compute_path_pure_python
SpecStripe == InitStripe /\ [][NextStripe]_vars

----------------------------------------------------------------------------
\* DTWAligner

\* delta = int(2 * rconf["dtw_margin"] / rconf["mfcc_win_shift"])
SetupDelta(rc) == (2 * rc.dtw_margin) \div rc.mfcc_win_shift

\* slip: the synt wave must be strictly shorter than delta to force EXACT
SelectAlgorithm_Strict(rc, mfcc2_length, canrun) ==
    IF mfcc2_length < SetupDelta(rc)
    THEN IF rc.c_ext /\ canrun THEN rc.dtw_algorithm ELSE "exact"
    ELSE rc.dtw_algorithm

\* the value of `algorithm` when _setup_dtw reaches "execute the selected algorithm"
SelectAlgorithm(rc, mfcc2_length, canrun) ==
    IF mfcc2_length <= SetupDelta(rc)
    THEN IF rc.c_ext /\ canrun THEN rc.dtw_algorithm ELSE "exact"
    ELSE rc.dtw_algorithm

\* slip: only the AudioFileMFCC objects are checked, not their middle_mfcc
NotInitialized_ObjectsOnly ==
    \/ real_wave_mfcc = None
    \/ synt_wave_mfcc = None

\* the condition of either raise of DTWAlignerNotInitialized in _setup_dtw
NotInitialized ==
    \/ real_wave_mfcc = None
    \/ real_wave_mfcc.middle_mfcc = None
    \/ synt_wave_mfcc = None
    \/ synt_wave_mfcc.middle_mfcc = None

\* dtw = self._setup_dtw(), at the entry of compute_path and compute_accumulated_cost_matrix
AlignerSetupDtw ==
    /\ pc = "call"
    /\ IF NotInitialized
       THEN /\ raised' = "DTWAlignerNotInitialized"
            /\ pc' = "raised"
            /\ UNCHANGED <<algorithm, mfcc1, mfcc2, n, m, delta, native>>
       ELSE /\ algorithm' = SelectAlgorithm(rconf, synt_wave_mfcc.middle_length, can_run)
            /\ mfcc1' = real_wave_mfcc.middle_mfcc
            /\ mfcc2' = synt_wave_mfcc.middle_mfcc
            /\ n' = Cardinality(DOMAIN real_wave_mfcc.middle_mfcc)
            /\ m' = Cardinality(DOMAIN synt_wave_mfcc.middle_mfcc)
            /\ delta' = (IF algorithm' = "exact" THEN 0 ELSE SetupDelta(rconf))
            /\ native' = (IF algorithm' = "exact" THEN "none" ELSE "untried")
            /\ pc' = "start"
            /\ UNCHANGED raised
    /\ UNCHANGED <<cost_matrix, centers, i, j, costs, path>>
    /\ UNCHANGED <<op, real_wave_mfcc, synt_wave_mfcc, rconf, can_run, computed_path, returned>>

\* the while loop of DTWStripe._compute_best_path and its return; <<>> when it raises
RECURSIVE StripeWhile(_, _, _, _, _, _)
StripeWhile(acc, cen, ii, jj, p, d) ==
    IF ~Continue(ii, jj) THEN Reverse(p)
    ELSE IF StripeRaises(cen, ii, jj, d) THEN <<>>
    ELSE LET mv == StripeMove(acc, cen, ii, jj, d)
         IN  StripeWhile(acc, cen, mv[1], mv[2], Append(p, mv), d)

\* what _compute_acm_pure_python computes from m1, m2, delta
StripePortableAcm(f1, f2, nn, mm, dcfg) ==
    LET d == StripeDelta(dcfg, mm)
    IN  StripeAcmInPlace(StripeCostMatrix(f1, f2, nn, mm, d), StripeCenters(nn, mm, d), nn, d)

\* what _compute_path_pure_python computes from m1, m2, delta; <<>> when it raises
StripePortablePath(f1, f2, nn, mm, dcfg) ==
    LET d == StripeDelta(dcfg, mm)
        cen == StripeCenters(nn, mm, d)
        start == <<nn - 1, d - 1 + cen[nn - 1]>>
    IN  StripeWhile(StripePortableAcm(f1, f2, nn, mm, dcfg), cen, start[1], start[2],
                    <<start>>, d)

\* run_c_extension_with_fallback runs the C function when the extension can be run
NativeAttempted == can_run

\* the value the functions of aeneas.cdtw.cdtw give: that of the pure-Python code
NativeValue ==
    IF op = "path" THEN StripePortablePath(mfcc1, mfcc2, n, m, delta)
    ELSE StripePortableAcm(mfcc1, mfcc2, n, m, delta)

\* the C function can complete: the band is not empty and the pure-Python code has a
\* value to match
NativeCanComplete ==
    /\ StripeDelta(delta, m) >= 1
    /\ op = "acm" \/ StripePortablePath(mfcc1, mfcc2, n, m, delta) # <<>>

\* slip: no try/except around the calls of cdtw, the exception leaves the method
CExtensionResult_Propagates(exc, value) ==
    IF exc THEN [propagated |-> TRUE, computed |-> FALSE, result |-> None]
    ELSE [propagated |-> FALSE, computed |-> TRUE, result |-> value]

\* what _compute_path_c_extension and _compute_acm_c_extension give: (True, value), or
\* (False, None) when anything in the try block raised
CExtensionResult(exc, value) ==
    IF exc THEN [propagated |-> FALSE, computed |-> FALSE, result |-> None]
    ELSE [propagated |-> FALSE, computed |-> TRUE, result |-> value]

\* run_c_extension_with_fallback does not run the C function
StripeNativeSkipped ==
    /\ algorithm = "stripe" /\ pc = "start" /\ native = "untried"
    /\ ~NativeAttempted
    /\ native' = "skipped"
    /\ UNCHANGED engineVars
    /\ UNCHANGED <<op, real_wave_mfcc, synt_wave_mfcc, rconf, can_run, computed_path, raised,
                   returned>>

\* run_c_extension_with_fallback runs _compute_path_c_extension or _compute_acm_c_extension
StripeNativeAttempt ==
    /\ algorithm = "stripe" /\ pc = "start" /\ native = "untried"
    /\ NativeAttempted
    /\ \E exc \in BOOLEAN :
         /\ ~exc => NativeCanComplete
         /\ LET r == CExtensionResult(exc, IF exc THEN None ELSE NativeValue)
            IN  IF r.propagated
                THEN /\ raised' = "Exception"
                     /\ pc' = "raised"
                     /\ native' = "failed"
                     /\ UNCHANGED <<path, cost_matrix>>
                ELSE IF r.computed
                THEN /\ native' = "ok"
                     /\ pc' = (IF op = "path" THEN "done" ELSE "acm")
                     /\ path' = (IF op = "path" THEN r.result ELSE path)
                     /\ cost_matrix' = (IF op = "acm" THEN r.result ELSE cost_matrix)
                     /\ UNCHANGED raised
                ELSE /\ native' = "failed"
                     /\ UNCHANGED <<pc, path, cost_matrix, raised>>
    /\ UNCHANGED <<algorithm, mfcc1, mfcc2, n, m, delta, centers, i, j, costs>>
    /\ UNCHANGED <<op, real_wave_mfcc, synt_wave_mfcc, rconf, can_run, computed_path, returned>>

\* neither the C function nor the pure-Python code computed: RuntimeError
StripeBothFailed ==
    /\ algorithm = "stripe" /\ pc = "failed"
    /\ raised' = "RuntimeError"
    /\ pc' = "raised"
    /\ UNCHANGED <<algorithm, mfcc1, mfcc2, n, m, delta, cost_matrix, centers, i, j, costs, path>>
    /\ UNCHANGED <<op, real_wave_mfcc, synt_wave_mfcc, rconf, can_run, native, computed_path,
                   returned>>

\* slip: `real_indices += self.real_wave_mfcc.head_length` left out
RealIndices_NoHead(wave_path, head_length) ==
    [t \in 1..Len(wave_path) |-> wave_path[t][1]]

\* real_indices of DTWAligner.compute_path
RealIndices(wave_path, head_length) ==
    [t \in 1..Len(wave_path) |-> wave_path[t][1] + head_length]

\* synt_indices of DTWAligner.compute_path
SyntIndices(wave_path) == [t \in 1..Len(wave_path) |-> wave_path[t][2]]

\* DTWAligner.compute_path after dtw.compute_path() has returned
AlignerTranslatePath ==
    /\ pc = "done" /\ op = "path"
    /\ computed_path' = <<RealIndices(path, real_wave_mfcc.head_length), SyntIndices(path)>>
    /\ pc' = "returned"
    /\ UNCHANGED <<algorithm, mfcc1, mfcc2, n, m, delta, cost_matrix, centers, i, j, costs, path>>
    /\ UNCHANGED <<op, real_wave_mfcc, synt_wave_mfcc, rconf, can_run, native, raised, returned>>

\* DTWAligner.compute_accumulated_cost_matrix returns what the engine returned
AlignerReturnAcm ==
    /\ pc = "acm" /\ op = "acm"
    /\ returned' = cost_matrix
    /\ pc' = "returned"
    /\ UNCHANGED <<algorithm, mfcc1, mfcc2, n, m, delta, cost_matrix, centers, i, j, costs, path>>
    /\ UNCHANGED <<op, real_wave_mfcc, synt_wave_mfcc, rconf, can_run, native, computed_path,
                   raised>>

\* the frames of the waves handed to the aligner
AlignerFrames == { <<2, 0>>, <<0, 1>> }

\* middle_mfcc of an AudioFileMFCC (first component dropped), 1..MaxLen columns
Waves == UNION { [0..(len - 1) -> AlignerFrames] : len \in 1..MaxLen }

\* rconf["mfcc_win_shift"]
WinShifts == {1, 2}

\* real_wave_mfcc.head_length
HeadLengths == {0, 7}

\* a value computed_path holds from an earlier call
EarlierPath == << <<7>>, <<0>> >>

\* the aligner after construction, or after an earlier call and new waves, when
\* compute_path or compute_accumulated_cost_matrix is entered
InitAligner ==
    /\ op \in {"path", "acm"}
    /\ real_wave_mfcc \in {None} \cup
          { [middle_mfcc |-> w, head_length |-> h] : w \in {None} \cup Waves, h \in HeadLengths }
    /\ synt_wave_mfcc \in {None} \cup
          { [middle_mfcc |-> w, middle_length |-> IF w = None THEN 0 ELSE Cardinality(DOMAIN w)] :
              w \in {None} \cup Waves }
    /\ rconf \in [dtw_algorithm : {"exact", "stripe"}, dtw_margin : 0..MaxMargin,
                  mfcc_win_shift : WinShifts, c_ext : BOOLEAN]
    /\ can_run \in BOOLEAN
    /\ computed_path \in {None, EarlierPath}
    /\ native = "none"
    /\ raised = "none"
    /\ returned = None
    /\ algorithm = "none"
    /\ n = 0
    /\ m = 0
    /\ mfcc1 = <<>>
    /\ mfcc2 = <<>>
    /\ delta = 0
    /\ pc = "call"
    /\ cost_matrix = <<>>
    /\ centers = <<>>
    /\ i = 0
    /\ j = 0
    /\ costs = <<>>
    /\ path = <<>>

\* DTWExact constructed on waves of 3 and 5 columns (the shape of scenario S3)
InitS3 ==
    /\ algorithm = "exact"
    /\ n = 3
    /\ m = 5
    /\ mfcc1 \in [0..2 -> AlignerFrames]
    /\ mfcc2 \in [0..4 -> AlignerFrames]
    /\ delta = 0
    /\ pc = "start"
    /\ cost_matrix = <<>>
    /\ centers = <<>>
    /\ i = 0
    /\ j = 0
    /\ costs = <<>>
    /\ path = <<>>
    /\ op = "path"
    /\ real_wave_mfcc = None
    /\ synt_wave_mfcc = None
    /\ rconf = None
    /\ can_run = FALSE
    /\ native = "none"
    /\ computed_path = None
    /\ raised = "none"
    /\ returned = None

\* a call of DTWExact.compute_path on waves of 3 and 5 columns
SpecS3 == InitS3 /\ [][NextExact]_vars

\* DTWStripe constructed on waves of 2 and 5 columns: the centers of a narrow band are
\* further apart than the band is wide
InitStripeWide ==
    /\ algorithm = "stripe"
    /\ n = 2
    /\ m = 5
    /\ mfcc1 \in [0..1 -> AlignerFrames]
    /\ mfcc2 \in [0..4 -> AlignerFrames]
    /\ delta \in 1..MaxDelta
    /\ pc = "start"
    /\ cost_matrix = <<>>
    /\ centers = <<>>
    /\ i = 0
    /\ j = 0
    /\ costs = <<>>
    /\ path = <<>>
    /\ op = "path"
    /\ real_wave_mfcc = None
    /\ synt_wave_mfcc = None
    /\ rconf = None
    /\ can_run = FALSE
    /\ native = "skipped"
    /\ computed_path = None
    /\ raised = "none"
    /\ returned = None

\* a call of DTWStripe._compute_path_pure_python, on the waves of InitStripe or on those
\* of InitStripeWide
SpecStripeWide == (InitStripe \/ InitStripeWide) /\ [][NextStripe]_vars

NextAligner ==
    \/ AlignerSetupDtw
    \/ NextExact
    \/ StripeNativeSkipped
    \/ StripeNativeAttempt
    \/ NextStripe
    \/ StripeBothFailed
    \/ AlignerTranslatePath
    \/ AlignerReturnAcm

\* a call of DTWAligner.compute_path or DTWAligner.compute_accumulated_cost_matrix
SpecAligner == InitAligner /\ [][NextAligner]_vars

----------------------------------------------------------------------------
\* Reference notions used by the properties.

\* the pairwise cosine distances of the two waves
dist == [r \in 0..(n - 1) |-> [c \in 0..(m - 1) |-> CosineDistance(mfcc1[r], mfcc2[c])]]

\* all monotone paths from (0,0) to (a,b) with steps (+1,0), (0,+1), (+1,+1)
RECURSIVE MonotonePaths(_, _)
MonotonePaths(a, b) ==
    IF a = 0 /\ b = 0 THEN { << <<0, 0>> >> }
    ELSE LET fromUp   == IF a > 0 THEN MonotonePaths(a - 1, b) ELSE {}
             fromLeft == IF b > 0 THEN MonotonePaths(a, b - 1) ELSE {}
             fromDiag == IF a > 0 /\ b > 0 THEN MonotonePaths(a - 1, b - 1) ELSE {}
         IN  { Append(p, <<a, b>>) : p \in fromUp \cup fromLeft \cup fromDiag }

\* sum of the distances of the first t cells of p
RECURSIVE PrefixCost(_, _)
PrefixCost(p, t) == IF t = 0 THEN 0 ELSE PrefixCost(p, t - 1) + dist[p[t][1]][p[t][2]]

PathCost(p) == PrefixCost(p, Len(p))

\* the recurrence of the accumulated cost, evaluated apart from any matrix
RECURSIVE Recurrence(_, _)
Recurrence(a, b) ==
    dist[a][b] + (IF a = 0 /\ b = 0 THEN 0
                  ELSE IF a = 0 THEN Recurrence(0, b - 1)
                  ELSE IF b = 0 THEN Recurrence(a - 1, 0)
                  ELSE Min3(Recurrence(a - 1, b), Recurrence(a, b - 1), Recurrence(a - 1, b - 1)))

Accumulated == pc \in {"acm", "back", "done"}

\* the three allowed steps between consecutive path entries
IsStep(p, q) == <<q[1] - p[1], q[2] - p[2]>> \in { <<1, 0>>, <<0, 1>>, <<1, 1>> }

----------------------------------------------------------------------------
\* C1 - ExactDTW optimality: after DTWExact._compute_acm_in_place every cell
\* A[a,b] is the minimum of the cost of the monotone paths from (0,0) to
\* (a,b) (it is below the cost of every path and is the cost of one of
\* them), and it equals the recurrence evaluated on a separate matrix.
Thm_C1_ExactOptimal ==
    (algorithm = "exact" /\ pc = "acm") =>
        \A a \in 0..(n - 1) : \A b \in 0..(m - 1) :
            /\ \A p \in MonotonePaths(a, b) : cost_matrix[a][b] <= PathCost(p)
            /\ \E p \in MonotonePaths(a, b) : cost_matrix[a][b] = PathCost(p)
            /\ cost_matrix[a][b] = Recurrence(a, b)

\* an accumulated matrix with n, m >= 2 whose corner is positive and strictly below the
\* cost of some monotone path
Wit_C1_ExactOptimal ==
    /\ algorithm = "exact" /\ pc = "acm" /\ n >= 2 /\ m >= 2
    /\ \E p \in MonotonePaths(n - 1, m - 1) : cost_matrix[n - 1][m - 1] < PathCost(p)
    /\ cost_matrix[n - 1][m - 1] > 0

\* C2 - Endpoint anchoring (Exact): the path returned by
\* DTWExact._compute_best_path starts at (0,0) and ends at (n-1, m-1).
Thm_C2_ExactEndpoints ==
    (algorithm = "exact" /\ pc = "done") =>
        /\ Len(path) >= 1
        /\ path[1] = <<0, 0>>
        /\ path[Len(path)] = <<n - 1, m - 1>>

Wit_C2_ExactEndpoints ==
    /\ algorithm = "exact" /\ pc = "done" /\ n >= 2 /\ m >= 2
    /\ path[1] = <<0, 0>> /\ path[Len(path)] = <<n - 1, m - 1>>

\* C3 - Monotonicity: for both engines, consecutive entries of the returned
\* path differ by exactly one of (1,0), (0,1), (1,1).
Thm_C3_Monotone ==
    (pc = "done") => \A t \in 1..(Len(path) - 1) : IsStep(path[t], path[t + 1])

\* a returned stripe path of a band narrower than m, with at least three steps
Wit_C3_Monotone ==
    /\ pc = "done" /\ algorithm = "stripe" /\ delta < m /\ Len(path) >= 4
    /\ \E t \in 1..(Len(path) - 1) : path[t + 1] = <<path[t][1] + 1, path[t][2] + 1>>

\* C4 - Cost consistency (Exact): the distances of the cells of the returned
\* path sum to the accumulated value A[n-1, m-1].
Thm_C4_ExactCostConsistent ==
    (algorithm = "exact" /\ pc = "done") => PathCost(path) = cost_matrix[n - 1][m - 1]

\* a returned path of positive cost that is not the only monotone path
Wit_C4_ExactCostConsistent ==
    /\ algorithm = "exact" /\ pc = "done" /\ n >= 2 /\ m >= 2
    /\ PathCost(path) = cost_matrix[n - 1][m - 1]
    /\ PathCost(path) > 0
    /\ \E p \in MonotonePaths(n - 1, m - 1) : PathCost(p) > PathCost(path)

\* the main diagonal (0,0), (1,1), ..., (k-1,k-1)
Diagonal(k) == [t \in 1..k |-> <<t - 1, t - 1>>]

\* M1 = M2
SameWaves == n = m /\ mfcc1 = mfcc2

\* C5 as stated - Identity alignment: whenever M1 = M2, ExactDTW returns
\* exactly the main diagonal and A[n-1,n-1] = 0, also when all columns are
\* identical (S1).
CE_C5_IdentityDiagonal ==
    (algorithm = "exact" /\ pc = "done" /\ SameWaves) =>
        /\ path = Diagonal(n)
        /\ cost_matrix[n - 1][n - 1] = 0

\* C5 amended - Identity alignment: whenever M1 = M2, A[n-1,n-1] = 0 and
\* every cell of the returned path has cost 0; the path is the main diagonal
\* exactly when no two consecutive columns have cost 0 (C[t-1,t] > 0 for all
\* t); in S1 (n = m = 3, all columns identical) the up-first tie-break
\* returns (0,0),(0,1),(0,2),(1,2),(2,2).
Thm_C5_IdentityZeroCost ==
    (algorithm = "exact" /\ pc = "done" /\ SameWaves) =>
        /\ cost_matrix[n - 1][n - 1] = 0
        /\ \A t \in 1..Len(path) : dist[path[t][1]][path[t][2]] = 0
        /\ (path = Diagonal(n)) <=> (\A t \in 1..(n - 1) : dist[t - 1][t] > 0)
        /\ (n = 3 /\ mfcc1[0] = mfcc1[1] /\ mfcc1[1] = mfcc1[2]) =>
               path = << <<0, 0>>, <<0, 1>>, <<0, 2>>, <<1, 2>>, <<2, 2>> >>

\* equal waves of three frames with one repeated column: the path leaves the diagonal
Wit_C5_IdentityZeroCost ==
    /\ algorithm = "exact" /\ pc = "done" /\ SameWaves /\ n = 3
    /\ mfcc1[0] = mfcc1[1] /\ mfcc1[1] # mfcc1[2]
    /\ path # Diagonal(n)
    /\ cost_matrix[n - 1][n - 1] = 0

\* the cell the last iteration came from, and the cell it appended
PrevCell == path[Len(path) - 1]
LastCell == path[Len(path)]

\* the entry of the accumulated matrix for the absolute cell c, Inf outside the band
AccAt(c) ==
    IF algorithm = "exact" THEN cost_matrix[c[1]][c[2]]
    ELSE LET k == c[2] - centers[c[1]]
         IN  IF k >= 0 /\ k < Width(cost_matrix) THEN cost_matrix[c[1]][k] ELSE Inf

CE_C7_BandContainment ==
    (algorithm = "stripe" /\ pc = "done") =>
        \A t \in 1..Len(path) :
            /\ centers[path[t][1]] <= path[t][2]
            /\ path[t][2] < centers[path[t][1]] + Width(cost_matrix)

\* C8 as stated - Stripe terminal anchoring: centers[n-1] = m - delta (delta
\* clamped to m), so the returned stripe path ends at (n-1, m-1).
CE_C8_TerminalAnchoring ==
    (algorithm = "stripe" /\ pc # "start") =>
        /\ centers[n - 1] = m - StripeDelta(delta, m)
        /\ (pc = "done") => path[Len(path)] = <<n - 1, m - 1>>

\* the accumulated matrix DTWExact computes for the same waves
ExactAcc == ExactAcmInPlace(ExactCostMatrix(mfcc1, mfcc2, n, m), n, m)

\* C9 - Stripe/Exact agreement: whenever the configured delta >= m, StripeDTW
\* uses delta = m and centers all 0, its accumulated matrix equals the
\* ExactDTW accumulated matrix cell for cell, and it returns the ExactDTW path.
Thm_C9_StripeEqualsExact ==
    (algorithm = "stripe" /\ delta >= m) =>
        /\ pc # "failed"
        /\ (pc # "start") =>
              /\ Width(cost_matrix) = m
              /\ \A r \in 0..(n - 1) : centers[r] = 0
        /\ Accumulated => cost_matrix = ExactAcc
        /\ (pc = "done") => path = ExactBestPath(ExactAcc, n, m)

\* a stripe run with delta above m that returned a path with a positive total
Wit_C9_StripeEqualsExact ==
    /\ algorithm = "stripe" /\ pc = "done" /\ delta > m /\ n >= 3 /\ m >= 2
    /\ cost_matrix[n - 1][m - 1] > 0
    /\ path = ExactBestPath(ExactAcc, n, m)

\* C10 - Stripe centers invariant: the stripe cost matrix has shape
\* (n, min(delta, m)), centers[0] = 0, every centers[r] is an integer in
\* [0, m - min(delta, m)], and centers is non-decreasing.
Thm_C10_Centers ==
    (algorithm = "stripe" /\ pc # "start") =>
        LET d == IF delta < m THEN delta ELSE m
        IN  /\ DOMAIN cost_matrix = 0..(n - 1)
            /\ \A r \in 0..(n - 1) : DOMAIN cost_matrix[r] = 0..(d - 1)
            /\ DOMAIN centers = 0..(n - 1)
            /\ centers[0] = 0
            /\ \A r \in 0..(n - 1) : centers[r] \in 0..(m - d)
            /\ \A r \in 1..(n - 1) : centers[r - 1] <= centers[r]

\* a band narrower than m whose centers stay, then move, then reach m - delta
Wit_C10_Centers ==
    /\ algorithm = "stripe" /\ pc = "cost" /\ delta < m /\ n = 3
    /\ centers[0] = centers[1]
    /\ centers[1] < centers[2]
    /\ centers[2] = m - delta

----------------------------------------------------------------------------
\* Properties of the aligner (SpecAligner)

\* the floor of 2 * dtw_margin / mfcc_win_shift, stated by its defining inequalities
IsFloorOfMargin(d) ==
    /\ d * rconf.mfcc_win_shift <= 2 * rconf.dtw_margin
    /\ 2 * rconf.dtw_margin < (d + 1) * rconf.mfcc_win_shift

\* _setup_dtw has constructed an engine
EngineConstructed == rconf # None /\ algorithm # "none"

\* C11: once the coordinator has set an engine up, the engine is Exact exactly when
\* EXACT was configured, or the synt wave has m <= delta columns and the native code is
\* not available (c_ext false or the extension not runnable), delta being the floor of
\* 2 * dtw_margin / mfcc_win_shift; otherwise it is Stripe, constructed with that delta.
Thm_C11_AlgorithmSelection ==
    EngineConstructed =>
        \E d \in 0..(2 * MaxMargin) :
            /\ IsFloorOfMargin(d)
            /\ (algorithm = "exact") <=>
                   \/ rconf.dtw_algorithm = "exact"
                   \/ (m <= d /\ ~(rconf.c_ext /\ can_run))
            /\ (algorithm # "exact") => (algorithm = "stripe" /\ delta = d)

\* STRIPE was configured and Exact was forced, and STRIPE was kept although m <= delta
Wit_C11_AlgorithmSelection ==
    /\ EngineConstructed
    /\ rconf.dtw_algorithm = "stripe"
    /\ m <= delta
    /\ algorithm = "stripe"
    /\ pc = "returned"

\* C12: when compute_path has returned, computed_path is a pair (real_indices,
\* synt_indices) of sequences of the length k of the engine's path P, with
\* real_indices[t] = P[t].i + head_length and synt_indices[t] = P[t].j; so real_indices
\* starts at head_length and ends at head_length + n - 1.
Thm_C12_HeadOffset ==
    (pc = "returned" /\ op = "path") =>
        LET real_indices == computed_path[1]
            synt_indices == computed_path[2]
            head_length == real_wave_mfcc.head_length
            k == Len(path)
        IN  /\ Len(computed_path) = 2
            /\ k >= 1
            /\ DOMAIN real_indices = 1..k
            /\ DOMAIN synt_indices = 1..k
            /\ \A t \in 1..k : /\ real_indices[t] = path[t][1] + head_length
                                /\ synt_indices[t] = path[t][2]
            /\ real_indices[1] = head_length
            /\ real_indices[k] = head_length + n - 1

\* the path [(0,0),(1,0),(1,1)] with head_length 7 is stored as ([7,8,8],[0,0,1])
Wit_C12_HeadOffset ==
    /\ pc = "returned" /\ op = "path"
    /\ path = << <<0, 0>>, <<1, 0>>, <<1, 1>> >>
    /\ real_wave_mfcc.head_length = 7
    /\ computed_path = << <<7, 8, 8>>, <<0, 0, 1>> >>

\* C13: when the delta derived from the configuration is <= 0 and the stripe algorithm is
\* selected, compute_path and compute_accumulated_cost_matrix raise at the entry point,
\* before any cost matrix is allocated: no engine step runs and nothing is returned.
CE_C13_NonPositiveDeltaRejected ==
    (EngineConstructed /\ algorithm = "stripe" /\ SetupDelta(rconf) <= 0) =>
        /\ cost_matrix = <<>>
        /\ centers = <<>>
        /\ pc \in {"start", "raised"}
        /\ pc = "raised" => raised = "InvalidInput"

\* an MFCC object is absent, or present without its middle_mfcc
Absent(wave) == wave = None \/ wave.middle_mfcc = None

\* C14: a call of compute_path or compute_accumulated_cost_matrix made while the real or
\* the synt MFCC object is absent, or its middle_mfcc is absent, raises
\* DTWAlignerNotInitialized: no engine is constructed, nothing is allocated or returned,
\* and computed_path keeps the value it had before the call; the error is raised in no
\* other case.
Thm_C14_NotInitialized ==
    /\ [][ (pc = "call" /\ (Absent(real_wave_mfcc) \/ Absent(synt_wave_mfcc))) =>
              /\ pc' = "raised"
              /\ raised' = "DTWAlignerNotInitialized"
              /\ algorithm' = "none"
              /\ computed_path' = computed_path ]_vars
    /\ [](raised = "DTWAlignerNotInitialized" =>
              /\ Absent(real_wave_mfcc) \/ Absent(synt_wave_mfcc)
              /\ pc = "raised"
              /\ algorithm = "none" /\ native = "none"
              /\ cost_matrix = <<>> /\ centers = <<>> /\ path = <<>>
              /\ returned = None)

\* compute_accumulated_cost_matrix raised because the synt wave has no middle_mfcc, and
\* the path of an earlier call is still stored
Wit_C14_NotInitialized ==
    /\ pc = "raised" /\ raised = "DTWAlignerNotInitialized"
    /\ op = "acm"
    /\ ~Absent(real_wave_mfcc)
    /\ synt_wave_mfcc # None
    /\ computed_path = EarlierPath

\* C15: in a Stripe call an exception inside the native attempt is absorbed (the attempt
\* gives (False, None), nothing is raised) and the pure-Python code is then run, once; an
\* error reaches the caller only when the native attempt did not compute and the
\* pure-Python code failed; a call that returns gives the value of the attempt that
\* computed: the native one if it computed, the pure-Python one otherwise.
Thm_C15_NativeFallback ==
    /\ [][ (native = "untried" /\ native' = "failed") =>
              (pc' = "start" /\ raised' = "none") ]_vars
    /\ [][ (pc = "start" /\ pc' = "cost" /\ algorithm = "stripe") =>
              native \in {"failed", "skipped"} ]_vars
    /\ [][ pc \notin {"call", "start"} => pc' # "start" ]_vars
    /\ [][ pc = "failed" => (pc' = "raised" /\ raised' = "RuntimeError") ]_vars
    /\ []((algorithm = "stripe" /\ pc = "raised") =>
              /\ raised = "RuntimeError"
              /\ native \in {"failed", "skipped"}
              /\ op = "path"
              /\ StripePortablePath(mfcc1, mfcc2, n, m, delta) = <<>>)
    /\ []((algorithm = "stripe" /\ pc = "returned" /\ op = "path") =>
              /\ native = "ok" => path = NativeValue
              /\ native # "ok" => path = StripePortablePath(mfcc1, mfcc2, n, m, delta)
              /\ computed_path[2] = SyntIndices(path))
    /\ []((algorithm = "stripe" /\ pc = "returned" /\ op = "acm") =>
              /\ native = "ok" => returned = NativeValue
              /\ native # "ok" => returned = StripePortableAcm(mfcc1, mfcc2, n, m, delta))

\* the native attempt raised and the pure-Python code then computed the stored path
Wit_C15_NativeFallback ==
    /\ algorithm = "stripe" /\ native = "failed"
    /\ pc = "returned" /\ op = "path"
    /\ raised = "none"
    /\ computed_path # None /\ computed_path # EarlierPath

----------------------------------------------------------------------------
\* Scenarios

\* scenario S2: n = m = 2 and every cost is 1
ScenarioS2 ==
    /\ algorithm = "exact" /\ n = 2 /\ m = 2
    /\ \A r \in 0..1 : \A c \in 0..1 : dist[r][c] = 1

\* C16, as claimed: in scenario S2 ExactDTW yields A[1,1] = 3 and the path
\* [(0,0),(0,1),(1,1)].
CE_C16_ScenarioS2 ==
    (ScenarioS2 /\ pc = "done") =>
        /\ cost_matrix[1][1] = 3
        /\ path = << <<0, 0>>, <<0, 1>>, <<1, 1>> >>

\* C16, amended: in scenario S2 ExactDTW yields A = [[1,2],[2,2]], so A[1,1] = 2 (the
\* diagonal neighbour A[0,0] = 1 is the strict minimum), and the path [(0,0),(1,1)].
Thm_C16_ScenarioS2 ==
    (ScenarioS2 /\ pc = "done") =>
        /\ cost_matrix = [r \in 0..1 |-> [c \in 0..1 |-> IF r = 0 /\ c = 0 THEN 1 ELSE 2]]
        /\ cost_matrix[1][1] = 2
        /\ path = << <<0, 0>>, <<1, 1>> >>

\* scenario S2 has been computed
Wit_C16_ScenarioS2 ==
    /\ ScenarioS2 /\ pc = "done"
    /\ mfcc1 = [r \in 0..1 |-> <<2, 0>>]
    /\ mfcc2 = [c \in 0..1 |-> <<0, 1>>]
    /\ Len(path) = 2

\* scenario S3: n = 3, m = 5, C[i,j] = 1 when j = 2 and 0 otherwise
ScenarioS3 ==
    /\ algorithm = "exact" /\ n = 3 /\ m = 5
    /\ \A r \in 0..2 : \A c \in 0..4 : dist[r][c] = (IF c = 2 THEN 1 ELSE 0)

\* C17, as claimed: in scenario S3 ExactDTW returns [(0,0),(0,1),(1,2),(2,3),(2,4)], of
\* length 5 and total cost 1.
CE_C17_ScenarioS3 ==
    (ScenarioS3 /\ pc = "done") =>
        /\ path = << <<0, 0>>, <<0, 1>>, <<1, 2>>, <<2, 3>>, <<2, 4>> >>
        /\ Len(path) = 5
        /\ PathCost(path) = 1

\* C17, amended: in scenario S3 every row of A is [0,0,1,1,1] and ExactDTW returns
\* [(0,0),(0,1),(0,2),(0,3),(0,4),(1,4),(2,4)], of length 7 and total cost 1: at (2,4)
\* and (1,4) the three neighbours tie at 1 and the first, up, is taken, then row 0 is
\* walked left.
Thm_C17_ScenarioS3 ==
    (ScenarioS3 /\ pc = "done") =>
        /\ \A r \in 0..2 : cost_matrix[r] = [c \in 0..4 |-> IF c < 2 THEN 0 ELSE 1]
        /\ path = << <<0, 0>>, <<0, 1>>, <<0, 2>>, <<0, 3>>, <<0, 4>>, <<1, 4>>, <<2, 4>> >>
        /\ Len(path) = 7
        /\ PathCost(path) = 1

\* scenario S3 has been computed, and the claimed path is another path of cost 1
Wit_C17_ScenarioS3 ==
    /\ ScenarioS3 /\ pc = "done"
    /\ cost_matrix[2][4] = 1
    /\ PathCost(<< <<0, 0>>, <<0, 1>>, <<1, 2>>, <<2, 3>>, <<2, 4>> >>) = 1

----------------------------------------------------------------------------
\* Termination of the backtracking loops

Max(a, b) == IF a >= b THEN a ELSE b

\* C18: every iteration of either backtracking loop strictly decreases i + j and keeps
\* both indices non-negative, so after t iterations t + i + j <= n + m - 2 and the loop
\* runs at most n + m - 2 iterations; a loop that is entered is left (a path is returned,
\* or the stripe loop raises); a path ExactDTW returns has length k with
\* max(n, m) <= k <= n + m - 1, a path StripeDTW returns has k <= n + m - 1.
Thm_C18_Termination ==
    /\ [][ (pc = "back" /\ pc' = "back") =>
              (i' + j' < i + j /\ i' >= 0 /\ j' >= 0) ]_vars
    /\ [](pc = "back" => (Len(path) - 1) + i + j <= n + m - 2)
    /\ [](pc = "done" => Len(path) <= n + m - 1)
    /\ []((pc = "done" /\ algorithm = "exact") => Max(n, m) <= Len(path))
    /\ (pc = "back") ~> (pc \in {"done", "failed"})

\* both loops have run their n + m - 2 iterations and returned
Wit_C18_Termination ==
    /\ pc = "done" /\ n >= 2 /\ m >= 2
    /\ Len(path) = n + m - 1
    /\ algorithm = "stripe" /\ delta <= m

----------------------------------------------------------------------------
\* Stripe accumulation and backtracking against the in-band paths

\* (r, c) lies in the band of row r
InBand(r, c) == centers[r] <= c /\ c < centers[r] + Width(cost_matrix)

\* the monotone paths from (0,0) to (a,b) all of whose cells lie in the band
InBandPaths(a, b) ==
    { p \in MonotonePaths(a, b) : \A t \in 1..Len(p) : InBand(p[t][1], p[t][2]) }

\* C19: after the in-place accumulation of StripeDTW every cell A[i,k] is the minimum
\* cost of a monotone path from (0,0) to (i, centers[i]+k) that stays inside the band,
\* and is inf exactly when there is no such path; the offsets between successive
\* centers are >= 0, and the up and diagonal neighbours are inside the row above, at
\* local columns k + off and k + off - 1, exactly when the guards let them be read.
Thm_C19_StripeAccumulation ==
    (algorithm = "stripe" /\ pc = "acm") =>
        LET d == Width(cost_matrix)
        IN  /\ \A r \in 0..(n - 1) : \A k \in 0..(d - 1) :
                  LET ps == InBandPaths(r, centers[r] + k)
                  IN  /\ (cost_matrix[r][k] = Inf) <=> (ps = {})
                      /\ \A p \in ps : cost_matrix[r][k] <= PathCost(p)
                      /\ ps # {} => \E p \in ps : cost_matrix[r][k] = PathCost(p)
            /\ \A r \in 1..(n - 1) : \A k \in 0..(d - 1) :
                  LET off == centers[r] - centers[r - 1]
                  IN  /\ off >= 0
                      /\ (k + off < d) <=> InBand(r - 1, centers[r] + k)
                      /\ (k + off - 1 < d /\ k + off - 1 >= 0)
                            <=> InBand(r - 1, centers[r] + k - 1)
                      /\ (k + off < d) => ~OutOfBounds(k + off, d) /\ k + off >= 0

\* n = 2, m = 5, delta = 1: the cell of row 1 has no in-band path and holds inf, and
\* row 0 holds the cost of its only path
Wit_C19_StripeAccumulation ==
    /\ algorithm = "stripe" /\ pc = "acm"
    /\ n = 2 /\ m = 5 /\ Width(cost_matrix) = 1
    /\ InBandPaths(1, centers[1]) = {}
    /\ cost_matrix[1][0] = Inf
    /\ cost_matrix[0][0] = dist[0][0]

\* every cell of the path lies in the band of its row
PathInBand == \A t \in 1..Len(path) : InBand(path[t][1], path[t][2])

\* C20: the costs of the cells of the path StripeDTW returns are costs of the band and
\* sum to the accumulated value at the cell where backtracking starts, A[n-1, delta-1].
CE_C20_StripePathCost ==
    (algorithm = "stripe" /\ pc = "done") =>
        /\ PathInBand
        /\ PathCost(path) = cost_matrix[n - 1][Width(cost_matrix) - 1]

====
